---- MODULE Spec2Model ----
(***************************************************************************)
(* State-machine model of open_cam.py: the Camera frame pipeline and the   *)
(* CameraWindow render loop (start), with the window backend's pointer and *)
(* key events and the monotonic clock as the environment.                  *)
(***************************************************************************)
EXTENDS Integers, Sequences, FiniteSets, TLC

(* ------------------------------ bounds -------------------------------- *)

\* Number of samples of a raw frame in the model (the sensor has 24 * 32).
FrameLen == 1
\* Sensor samples range over 0..MaxTemp.
MaxTemp == 1
\* Clock resolution: clock units per second.
TicksPerSecond == 1
\* The clock stops advancing at MaxTime units.
MaxTime == 1
\* Pointer events delivered to the mouse callback during one waitKey call.
MaxEvents == 1
\* Ticks of the render loop the model follows.
MaxTicks == 3
\* Significand bits of the floating-point format the rescale is computed in
\* (float64 has 53).
MantissaBits == 10
\* Number of samples of a frame, and the highest sample, where the rescale is
\* looked at on its own.
NormLen == 3
MaxNormTemp == 7
\* Calls of one cycle method between two calls of generate_frame_image, when
\* the Camera is driven by any caller.
MaxCalls == 9

(* ------------------------- program constants -------------------------- *)

\* Python's None, for the fields that hold None or a number.
None == -1

\* Camera.colormap_list
colormap_list ==
    <<"jet", "bwr", "seismic", "coolwarm", "PiYG_r", "tab10", "tab20", "gnuplot2", "brg">>

\* Camera.interpolation_list: cv2.INTER_NEAREST, INTER_LINEAR, INTER_AREA,
\* INTER_CUBIC, INTER_LANCZOS4 (0, 1, 3, 2, 4 in cv2), then 5 and 6.
interpolation_list == <<0, 1, 3, 2, 4, 5, 6>>

\* Camera.interpolation_labels_list
interpolation_labels_list ==
    <<"Nearest", "Inter Linear", "Inter Area", "Inter Cubic", "Inter Lanczos4",
      "Pure Scipy", "Scipy/CV2 Mixed">>

\* Seconds the 'Snapshot Saved!' notification stays up (update_window).
NotificationSeconds == 1

\* The key code of Escape (process_events).
KeyEscape == 27

\* cv2.waitKey returns -1 when no key was pressed; & 0xFF makes it 255.
KeyNone == 255

\* Some other key ('q').
KeyOther == 113

\* cv2.EVENT_LBUTTONUP and one other pointer event (cv2.EVENT_MOUSEMOVE).
EVENT_LBUTTONUP == 4
EVENT_MOUSEMOVE == 0

(* ------------------------------- helpers ------------------------------ *)

Temps == 0..MaxTemp
Frames == [1..FrameLen -> Temps]

\* Camera.blank_image as constructed: np.zeros((24 * 32,)).
ZeroFrame == [i \in 1..FrameLen |-> 0]

\* Samples that are not finite, NaN and +inf, as codes below every temperature.
NaN == -2
PosInf == -3

\* np.min / np.max over a frame: NaN if a sample is NaN, and +inf is above
\* every temperature.
np_min(f) ==
    LET finite == {f[i] : i \in DOMAIN f} \ {NaN, PosInf}
    IN  IF \E i \in DOMAIN f : f[i] = NaN THEN NaN
        ELSE IF finite = {} THEN PosInf
        ELSE CHOOSE v \in finite : \A w \in finite : v <= w
np_max(f) ==
    LET finite == {f[i] : i \in DOMAIN f} \ {NaN, PosInf}
    IN  IF \E i \in DOMAIN f : f[i] = NaN THEN NaN
        ELSE IF \E i \in DOMAIN f : f[i] = PosInf THEN PosInf
        ELSE CHOOSE v \in finite : \A w \in finite : v >= w

\* What casting a NaN to uint8 can give (0 / 0 when Tmax = Tmin); the cast is
\* undefined, builds give 0 or 255.
NanCastValues == {0, 255}

(* The arithmetic of numpy's float64 arrays: binary floating point, every    *)
(* operation rounded to nearest, ties to even.  A value is a record: kind    *)
(* "num" is m * 2^e with m >= 0, "huge" the largest finite float, "inf",     *)
(* "ninf" and "nan" the values that are not finite.                          *)

num(m, e) == [kind |-> "num", m |-> m, e |-> e]
special(kind) == [kind |-> kind, m |-> 0, e |-> 0]

\* The number of low bits n has to lose to fit the significand.
RECURSIVE excess_bits(_)
excess_bits(n) == IF n < 2^MantissaBits THEN 0 ELSE 1 + excess_bits(n \div 2)

\* n * 2^e rounded to the significand's width, ties to even.
fl(n, e) ==
    LET s == excess_bits(n)
        q == n \div 2^s
        r == n % 2^s
    IN  IF s = 0 THEN num(n, e)
        ELSE IF 2 * r > 2^s \/ (2 * r = 2^s /\ q % 2 = 1) THEN num(q + 1, e + s)
        ELSE num(q, e + s)

\* A sample as float64.
float(v) ==
    CASE v = NaN -> special("nan")
      [] v = PosInf -> special("inf")
      [] OTHER -> fl(v, 0)

\* np.nan_to_num: NaN becomes 0.0 and +inf the largest finite float.
nan_to_num(x) ==
    CASE x.kind = "nan" -> num(0, 0)
      [] x.kind = "inf" -> special("huge")
      [] OTHER -> x

\* x - y, for x a sample after nan_to_num and y Tmin, or x Tmax and y Tmin
\* (y is never above x).
fsub(x, y) ==
    CASE x.kind = "nan" \/ y.kind = "nan" -> special("nan")
      [] x.kind = "inf" /\ y.kind = "inf" -> special("nan")
      [] x.kind = "inf" -> special("inf")
      [] y.kind = "inf" -> special("ninf")
      [] x.kind = "huge" -> special("huge")
      [] OTHER -> fl(x.m - y.m, 0)

\* x * c for an integer c > 1: the largest finite float overflows to +inf.
fmul(x, c) ==
    CASE x.kind = "nan" -> special("nan")
      [] x.kind = "huge" -> special("inf")
      [] x.kind \in {"inf", "ninf"} -> x
      [] OTHER -> fl(x.m * c, x.e)

\* The numerator n doubled until n / d has two bits more than the
\* significand; <<n doubled, the number of doublings>>.
RECURSIVE scaled(_, _, _)
scaled(n, d, k) ==
    IF n \div d >= 2^(MantissaBits + 1) THEN <<n, k>> ELSE scaled(2 * n, d, k + 1)

\* x / y for y >= 0: 0 / 0 and inf / inf are NaN, a finite number over inf is 0.
fdiv(x, y) ==
    CASE x.kind = "nan" \/ y.kind = "nan" -> special("nan")
      [] x.kind \in {"inf", "ninf"} /\ y.kind = "inf" -> special("nan")
      [] y.kind = "inf" -> num(0, 0)
      [] x.kind \in {"inf", "ninf", "huge"} -> x
      [] y.m = 0 -> IF x.m = 0 THEN special("nan") ELSE special("inf")
      [] x.m = 0 -> num(0, 0)
      [] OTHER ->
           LET nk == scaled(x.m, y.m, 0)
               q == nk[1] \div y.m
               sticky == IF nk[1] % y.m = 0 THEN 0 ELSE 1
           IN  fl(2 * q + sticky, x.e - y.e - nk[2] - 1)

\* Tmax - Tmin, the divisor of the rescale.
rescale_divisor(Tmin, Tmax) == fsub(float(Tmax), float(Tmin))

\* (f - Tmin) * 255 / (Tmax - Tmin) for one sample of nan_to_num(f).
rescaled(v, Tmin, Tmax) ==
    fdiv(fmul(fsub(nan_to_num(float(v)), float(Tmin)), 255),
         rescale_divisor(Tmin, Tmax))

\* np.uint8 of one float: the fraction is cut off; a value that is not finite
\* has no defined cast and gives nancast.
uint8(x, nancast) ==
    IF x.kind # "num" THEN nancast
    ELSE IF x.e >= 0 THEN (x.m * 2^x.e) % 256
    ELSE (x.m \div 2^(0 - x.e)) % 256

\* Camera.__temps_to_rescaled_uints: the arrays np.uint8((f - Tmin) * 255 /
\* (Tmax - Tmin)) can be, f being np.nan_to_num(f).
temps_to_rescaled_uints(f, Tmin, Tmax) ==
    {[i \in DOMAIN f |-> uint8(rescaled(f[i], Tmin, Tmax), v)] : v \in NanCastValues}

\* The overlay text of an image before __add_image_text wrote it.
NoText == [Tmin |-> None, Tmax |-> None, Interp |-> "", Colormap |-> "", Filtered |-> FALSE]

\* An image: the array's dtype and data, what the pipeline did to it and
\* what has been drawn on it.
NoImage ==
    [dtype |-> "none", data |-> <<>>, colormap |-> "", interp |-> None,
     flipped |-> FALSE, smoothed |-> FALSE, text |-> NoText, buttons |-> <<>>,
     notification |-> FALSE]

RawImage(dtype, data) == [NoImage EXCEPT !.dtype = dtype, !.data = data]

(* ------------------------------ buttons ------------------------------- *)

\* CameraWindow.__add_button: a button record from text, start, width,
\* height and callback.
add_button(text, start, width, height, callback) ==
    [text |-> text, start |-> start,
     end |-> <<start[1] + width, start[2] + height>>, callback |-> callback]

\* Mutant of buttons: Save is 100 wide and reaches into Colormap.
buttons_overlapping ==
    << add_button("Save", <<0, 550>>, 100, 50, "queue_save_snapshot"),
       add_button("Colormap", <<90, 550>>, 130, 50, "cycle_colormap"),
       add_button("Interpolation", <<230, 550>>, 150, 50, "cycle_interpolation"),
       add_button("Exit", <<390, 550>>, 70, 50, "exit") >>

\* CameraWindow.buttons after __init__.
buttons ==
    << add_button("Save", <<0, 550>>, 80, 50, "queue_save_snapshot"),
       add_button("Colormap", <<90, 550>>, 130, 50, "cycle_colormap"),
       add_button("Interpolation", <<230, 550>>, 150, 50, "cycle_interpolation"),
       add_button("Exit", <<390, 550>>, 70, 50, "exit") >>

(* ------------------------------- state -------------------------------- *)

VARIABLES
    pc,                   \* position of start(): see PCs
    colormap_index,       \* Camera.colormap_index
    interpolation_index,  \* Camera.interpolation_index
    use_smoothing_filter, \* Camera.use_smoothing_filter
    blank_image,          \* Camera.blank_image: the buffer getFrame fills
    temp_min, temp_max,   \* Camera.temp_min / temp_max
    image,                \* generate_frame_image's local image
    current_image,        \* CameraWindow.current_image
    is_exit_requested,    \* CameraWindow.is_exit_requested
    queue_save_snapshot,  \* CameraWindow.queue_save_snapshot
    snapshot_saved_at,    \* CameraWindow.snapshot_saved_at
    windows_open,         \* the display window exists (namedWindow / destroyAllWindows)
    now,                  \* the monotonic clock
    acq,                  \* outcome of this tick's getFrame
    escaped,              \* the exception that left start(), or "none"
    nevents,              \* pointer events delivered in this waitKey call
    tick,                 \* ticks started so far
    \* history
    last_key,             \* the key code cv2.waitKey returned at the end of the last tick
    invoked,              \* callbacks invoked by the last pointer event
    last_release,         \* the last pointer event was a release of the left button
    last_inside,          \* the buttons that had the pointer strictly inside
    saved_file,           \* the image cv2.imwrite wrote in this tick
    last_save_time,       \* the clock at the last cv2.imwrite
    saved_this_tick,      \* this tick wrote a file
    drew_buttons_this_tick,
    generated,            \* the image generate_frame_image returned in this tick
    presented,            \* the image cv2.imshow showed in this tick
    presented_at,         \* the clock when it was shown
    queued_this_tick,     \* queue-save was invoked in this tick's polling
    queued_prev_tick,     \* ... in the previous tick's polling
    prev_saved_at,        \* snapshot_saved_at as __save_snapshot found it, until
                          \* __update_window
    calls                 \* calls of the cycle methods since generate_frame_image
                          \* was last called, and the indices at that call

camera_vars == <<colormap_index, interpolation_index, use_smoothing_filter,
                 blank_image, temp_min, temp_max, image>>
window_vars == <<current_image, is_exit_requested, queue_save_snapshot,
                 snapshot_saved_at, windows_open>>
history_vars == <<last_key, invoked, last_release, last_inside, saved_file,
                  last_save_time, saved_this_tick,
                  drew_buttons_this_tick, generated, presented, presented_at,
                  queued_this_tick, queued_prev_tick, prev_saved_at, calls>>
vars == <<pc, camera_vars, window_vars, now, acq, escaped, nevents, tick, history_vars>>

\* No call of a cycle method yet, from the indices Camera is constructed with.
NoCalls ==
    [colormap |-> 0, interpolation |-> 0, colormap_from |-> 0, interpolation_from |-> 3]

PCs == {"loop", "pull", "process", "text", "branch", "update", "events",
        "waitKey", "except", "done", "crashed"}

\* The class attributes of Camera and CameraWindow, blank_image aside, and
\* start() about to test its loop condition.
Constructed ==
    /\ pc = "loop"
    /\ colormap_index = 0
    /\ interpolation_index = 3
    /\ use_smoothing_filter = TRUE
    /\ temp_min = None
    /\ temp_max = None
    /\ image = NoImage
    /\ current_image = NoImage
    /\ is_exit_requested = FALSE
    /\ queue_save_snapshot = FALSE
    /\ snapshot_saved_at = None
    /\ windows_open = FALSE
    /\ now = 0
    /\ acq = "idle"
    /\ escaped = "none"
    /\ nevents = 0
    /\ tick = 0
    /\ last_key = KeyNone
    /\ invoked = <<>>
    /\ last_release = FALSE
    /\ last_inside = {}
    /\ saved_file = NoImage
    /\ last_save_time = None
    /\ saved_this_tick = FALSE
    /\ drew_buttons_this_tick = FALSE
    /\ generated = NoImage
    /\ presented = NoImage
    /\ presented_at = None
    /\ queued_this_tick = FALSE
    /\ queued_prev_tick = FALSE
    /\ prev_saved_at = None
    /\ calls = NoCalls

Init ==
    /\ blank_image = ZeroFrame
    /\ Constructed

(* ------------------------------ start() -------------------------------- *)

\* start: the while condition, `while not self.is_exit_requested`.
start_loop ==
    /\ pc = "loop"
    /\ IF is_exit_requested
       THEN /\ pc' = "done"
            /\ UNCHANGED <<tick, last_key, queued_this_tick, queued_prev_tick>>
       ELSE /\ tick < MaxTicks
            /\ tick' = tick + 1
            /\ pc' = "pull"
            /\ last_key' = KeyNone
            /\ queued_this_tick' = FALSE
            /\ queued_prev_tick' = queued_this_tick
    /\ UNCHANGED <<camera_vars, window_vars, now, acq, escaped, nevents,
                   invoked, last_release, last_inside, saved_file,
                   last_save_time, saved_this_tick,
                   drew_buttons_this_tick, generated, presented, presented_at,
                   prev_saved_at, calls>>

(* ------------------------ generate_frame_image ------------------------- *)

\* __pull_raw_image, getFrame returned: image is self.blank_image, which
\* getFrame filled in place; temp_min / temp_max are taken from it and the
\* rescaled uint8 array is returned.
getFrame_returned(f) ==
    /\ pc = "pull"
    /\ blank_image' = f
    /\ temp_min' = np_min(f)
    /\ temp_max' = np_max(f)
    /\ \E d \in temps_to_rescaled_uints(f, temp_min', temp_max') :
          image' = RawImage("uint8", d)
    /\ acq' = "ok"
    /\ pc' = "process"
    /\ UNCHANGED <<colormap_index, interpolation_index, use_smoothing_filter,
                   window_vars, now, escaped, nevents, tick, history_vars>>

\* getFrame returns one of the frames of the model.
pull_ok == \E f \in Frames : getFrame_returned(f)

\* The faults __pull_raw_image catches.
AcquisitionFaults == {"ValueError", "OSError"}

\* Mutant of pull_fault: the handler resets temp_min and temp_max.
pull_fault_resets ==
    /\ pc = "pull"
    /\ blank_image' = blank_image
    /\ image' = RawImage("float64", blank_image')
    /\ acq' \in {"ValueError", "OSError"}
    /\ temp_min' = None
    /\ temp_max' = None
    /\ pc' = "process"
    /\ UNCHANGED <<colormap_index, interpolation_index, use_smoothing_filter,
                   window_vars, now, escaped, nevents, tick, history_vars>>

\* __pull_raw_image, getFrame raised ValueError or OSError (here before it
\* wrote to the buffer): the handler returns self.blank_image, the float64
\* buffer getFrame was given.
pull_fault ==
    /\ pc = "pull"
    /\ blank_image' = blank_image
    /\ image' = RawImage("float64", blank_image')
    /\ acq' \in AcquisitionFaults
    /\ pc' = "process"
    /\ UNCHANGED <<colormap_index, interpolation_index, use_smoothing_filter,
                   temp_min, temp_max, window_vars, now, escaped, nevents,
                   tick, history_vars>>

\* The RuntimeErrors getFrame raises; __pull_raw_image and
\* generate_frame_image do not catch them.
RuntimeErrors == {"RuntimeError: Too many retries", "RuntimeError: other"}

\* __pull_raw_image, getFrame raised RuntimeError: it propagates to the
\* except clause of start().
pull_runtime_error ==
    /\ pc = "pull"
    /\ blank_image' = blank_image
    /\ acq' \in RuntimeErrors
    /\ pc' = "except"
    /\ UNCHANGED <<colormap_index, interpolation_index, use_smoothing_filter,
                   temp_min, temp_max, image, window_vars, now, escaped,
                   nevents, tick, history_vars>>

\* __process_raw_image: colormap, upscaling, flip and smoothing filter.
\* cv2.applyColorMap takes 8-bit input only: given the float64 buffer it
\* raises cv2.error (ndimage.zoom keeps the dtype), which is no
\* RuntimeError and leaves start().
process_raw_image ==
    /\ pc = "process"
    /\ IF image.dtype = "uint8"
       THEN /\ image' = [image EXCEPT
                           !.colormap = colormap_list[colormap_index + 1],
                           !.interp = interpolation_index,
                           !.flipped = TRUE,
                           !.smoothed = use_smoothing_filter]
            /\ pc' = "text"
            /\ escaped' = escaped
       ELSE /\ image' = NoImage
            /\ pc' = "crashed"
            /\ escaped' = "cv2.error"
    /\ UNCHANGED <<colormap_index, interpolation_index, use_smoothing_filter,
                   blank_image, temp_min, temp_max, window_vars, now, acq,
                   nevents, tick, history_vars>>

\* Mutant of add_image_text: the frame is drawn into the image of the tick
\* before, whose notification stays on it.
add_image_text_on_old_image ==
    /\ pc = "text"
    /\ temp_min # None
    /\ temp_max # None
    /\ current_image' =
          [image EXCEPT !.text =
                            [Tmin |-> temp_min, Tmax |-> temp_max,
                             Interp |-> interpolation_labels_list[interpolation_index + 1],
                             Colormap |-> colormap_list[colormap_index + 1],
                             Filtered |-> use_smoothing_filter],
                        !.notification = current_image.notification]
    /\ generated' = current_image'
    /\ pc' = "branch"
    /\ image' = NoImage
    /\ UNCHANGED <<colormap_index, interpolation_index, use_smoothing_filter,
                   blank_image, temp_min, temp_max, is_exit_requested,
                   queue_save_snapshot, snapshot_saved_at, windows_open, now,
                   acq, escaped, nevents, tick, last_key, invoked, last_release,
                   last_inside, saved_file, last_save_time,
                   saved_this_tick, drew_buttons_this_tick, presented,
                   presented_at, queued_this_tick, queued_prev_tick,
                   prev_saved_at, calls>>

\* __add_image_text and the return of generate_frame_image into
\* self.current_image.  Formatting None with '+.1f' raises TypeError.  (The
\* FPS line and Camera.timestamp are left out.)
add_image_text ==
    /\ pc = "text"
    /\ IF temp_min = None \/ temp_max = None
       THEN /\ pc' = "crashed"
            /\ escaped' = "TypeError"
            /\ UNCHANGED <<current_image, generated>>
       ELSE /\ current_image' =
                 [image EXCEPT !.text =
                     [Tmin |-> temp_min, Tmax |-> temp_max,
                      Interp |-> interpolation_labels_list[interpolation_index + 1],
                      Colormap |-> colormap_list[colormap_index + 1],
                      Filtered |-> use_smoothing_filter]]
            /\ generated' = current_image'
            /\ pc' = "branch"
            /\ escaped' = escaped
    /\ image' = NoImage
    /\ UNCHANGED <<colormap_index, interpolation_index, use_smoothing_filter,
                   blank_image, temp_min, temp_max, is_exit_requested,
                   queue_save_snapshot, snapshot_saved_at, windows_open, now,
                   acq, nevents, tick, last_key, invoked, last_release,
                   last_inside, saved_file, last_save_time,
                   saved_this_tick, drew_buttons_this_tick, presented,
                   presented_at, queued_this_tick, queued_prev_tick,
                   prev_saved_at, calls>>

(* ------------------------- the rest of a tick -------------------------- *)

\* Mutant of save_snapshot: the queued flag is not cleared.
save_snapshot_keeps_flag ==
    /\ pc = "branch"
    /\ queue_save_snapshot
    /\ saved_file' = current_image
    /\ last_save_time' = now
    /\ saved_this_tick' = TRUE
    /\ prev_saved_at' = snapshot_saved_at
    /\ snapshot_saved_at' = now
    /\ pc' = "update"
    /\ UNCHANGED <<camera_vars, current_image, is_exit_requested, windows_open,
                   queue_save_snapshot, now, acq, escaped, nevents, tick,
                   last_key, invoked, last_release, last_inside,
                   drew_buttons_this_tick, generated, presented, presented_at,
                   queued_this_tick, queued_prev_tick, calls>>

\* __save_snapshot (start: `if self.queue_save_snapshot`): cv2.imwrite of
\* current_image, the save time, the flag cleared.
save_snapshot ==
    /\ pc = "branch"
    /\ queue_save_snapshot
    /\ saved_file' = current_image
    /\ last_save_time' = now
    /\ saved_this_tick' = TRUE
    /\ prev_saved_at' = snapshot_saved_at
    /\ snapshot_saved_at' = now
    /\ queue_save_snapshot' = FALSE
    /\ pc' = "update"
    /\ UNCHANGED <<camera_vars, current_image, is_exit_requested, windows_open,
                   now, acq, escaped, nevents, tick, last_key, invoked,
                   last_release, last_inside, drew_buttons_this_tick,
                   generated, presented, presented_at, queued_this_tick,
                   queued_prev_tick, calls>>

\* The texts of the buttons, in the order __draw_buttons draws them.
button_texts == [i \in 1..Len(buttons) |-> buttons[i].text]

\* __draw_buttons (start: the else branch): every button's rectangle and
\* text are drawn onto current_image.
draw_buttons ==
    /\ pc = "branch"
    /\ ~queue_save_snapshot
    /\ current_image' = [current_image EXCEPT !.buttons = button_texts]
    /\ drew_buttons_this_tick' = TRUE
    /\ pc' = "update"
    /\ UNCHANGED <<camera_vars, is_exit_requested, queue_save_snapshot,
                   snapshot_saved_at, windows_open, now, acq, escaped, nevents,
                   tick, last_key, invoked, last_release, last_inside,
                   saved_file, last_save_time, saved_this_tick,
                   generated, presented, presented_at, queued_this_tick,
                   queued_prev_tick, prev_saved_at, calls>>

\* Mutant of notification_showing: the comparison is reversed.
notification_showing_reversed(t, saved_at) ==
    (t - saved_at) > NotificationSeconds * TicksPerSecond

\* Mutant of notification_showing: <= for <.
notification_showing_inclusive(t, saved_at) ==
    (t - saved_at) <= NotificationSeconds * TicksPerSecond

\* update_window's test `(time.monotonic() - self.snapshot_saved_at) < 1`.
notification_showing(t, saved_at) == (t - saved_at) < NotificationSeconds * TicksPerSecond

\* __update_window: the notification or its reset, then the window is
\* (re)created and the image shown.
update_window ==
    /\ pc = "update"
    /\ IF snapshot_saved_at # None
       THEN IF notification_showing(now, snapshot_saved_at)
            THEN /\ current_image' = [current_image EXCEPT !.notification = TRUE]
                 /\ snapshot_saved_at' = snapshot_saved_at
            ELSE /\ current_image' = current_image
                 /\ snapshot_saved_at' = None
       ELSE UNCHANGED <<current_image, snapshot_saved_at>>
    /\ windows_open' = TRUE
    /\ presented' = current_image'
    /\ presented_at' = now
    /\ prev_saved_at' = None
    /\ pc' = "events"
    /\ UNCHANGED <<camera_vars, is_exit_requested, queue_save_snapshot, now,
                   acq, escaped, nevents, tick, last_key, invoked,
                   last_release, last_inside, saved_file, last_save_time,
                   saved_this_tick, drew_buttons_this_tick, generated,
                   queued_this_tick, queued_prev_tick, calls>>

(* ------------------------------- input --------------------------------- *)

\* What the callbacks read and write.
callback_state ==
    [colormap_index |-> colormap_index,
     interpolation_index |-> interpolation_index,
     queue_save_snapshot |-> queue_save_snapshot,
     is_exit_requested |-> is_exit_requested,
     windows_open |-> windows_open]

\* Mutant of cycle_colormap: the interpolation index is advanced as well.
cycle_colormap_moves_both(s) ==
    [s EXCEPT !.colormap_index =
                  IF s.colormap_index + 1 >= Len(colormap_list)
                  THEN 0 ELSE s.colormap_index + 1,
              !.interpolation_index =
                  IF s.interpolation_index + 1 >= Len(interpolation_list)
                  THEN 0 ELSE s.interpolation_index + 1]

\* Mutant of cycle_colormap: > for >=.
cycle_colormap_past_end(s) ==
    [s EXCEPT !.colormap_index =
        IF s.colormap_index + 1 > Len(colormap_list) THEN 0 ELSE s.colormap_index + 1]

\* Camera.cycle_colormap
cycle_colormap(s) ==
    [s EXCEPT !.colormap_index =
        IF s.colormap_index + 1 >= Len(colormap_list) THEN 0 ELSE s.colormap_index + 1]

\* Mutant of cycle_interpolation: > for >=.
cycle_interpolation_past_end(s) ==
    [s EXCEPT !.interpolation_index =
        IF s.interpolation_index + 1 > Len(interpolation_list)
        THEN 0 ELSE s.interpolation_index + 1]

\* Camera.cycle_interpolation
cycle_interpolation(s) ==
    [s EXCEPT !.interpolation_index =
        IF s.interpolation_index + 1 >= Len(interpolation_list)
        THEN 0 ELSE s.interpolation_index + 1]

\* Mutant of queue_save: the flag is not set.
queue_save_lost(s) == s

\* CameraWindow.__queue_save_snapshot
queue_save(s) == [s EXCEPT !.queue_save_snapshot = TRUE]

\* Mutant of exit: the windows are destroyed, the flag is not set.
exit_without_flag(s) == [s EXCEPT !.windows_open = FALSE]

\* CameraWindow.__exit: destroyAllWindows, then the flag.
exit(s) == [s EXCEPT !.windows_open = FALSE, !.is_exit_requested = TRUE]

\* button.callback()
call(callback, s) ==
    CASE callback = "queue_save_snapshot" -> queue_save(s)
      [] callback = "cycle_colormap" -> cycle_colormap(s)
      [] callback = "cycle_interpolation" -> cycle_interpolation(s)
      [] callback = "exit" -> exit(s)

\* Mutant of hit: the edges of the rectangle count as inside.
hit_with_edges(b, x, y) ==
    x >= b.start[1] /\ y >= b.start[2] /\ x <= b.end[1] /\ y <= b.end[2]

\* __process_click_input's test of one button.
hit(b, x, y) == x > b.start[1] /\ y > b.start[2] /\ x < b.end[1] /\ y < b.end[2]

\* __process_click_input's loop from button i on: every button hit has its
\* callback called; sc is <<callback state, callbacks called so far>>.
RECURSIVE click_loop(_, _, _, _)
click_loop(i, sc, x, y) ==
    IF i > Len(buttons) THEN sc
    ELSE click_loop(i + 1,
                    IF hit(buttons[i], x, y)
                    THEN <<call(buttons[i].callback, sc[1]),
                           Append(sc[2], buttons[i].callback)>>
                    ELSE sc,
                    x, y)

\* The callback state is written back.
write_back(s) ==
    /\ colormap_index' = s.colormap_index
    /\ interpolation_index' = s.interpolation_index
    /\ queue_save_snapshot' = s.queue_save_snapshot
    /\ is_exit_requested' = s.is_exit_requested
    /\ windows_open' = s.windows_open

\* __process_events up to cv2.waitKey: the mouse callback is set.
process_events ==
    /\ pc = "events"
    /\ pc' = "waitKey"
    /\ nevents' = 0
    /\ UNCHANGED <<camera_vars, window_vars, now, acq, escaped, tick,
                   history_vars>>

\* Mutant of callback_may_fire: the callback also runs between
\* __process_raw_image and __add_image_text.
callback_may_fire_mid_tick == pc \in {"text", "waitKey"}

\* The window backend calls the mouse callback while cv2.waitKey runs.
callback_may_fire == pc = "waitKey"

\* Where the pointer is: the buttons whose rectangle has (x, y) strictly
\* inside, left < x < right and top < y < bottom.
StrictlyInside(x, y) ==
    {i \in 1..Len(buttons) :
        /\ buttons[i].start[1] < x /\ x < buttons[i].end[1]
        /\ buttons[i].start[2] < y /\ y < buttons[i].end[2]}

\* __process_click_input(event, x, y, flags, param)
process_click_input(event, x, y) ==
    /\ callback_may_fire
    /\ nevents < MaxEvents
    /\ nevents' = nevents + 1
    /\ LET sc == IF event # EVENT_LBUTTONUP
                 THEN <<callback_state, <<>>>>
                 ELSE click_loop(1, <<callback_state, <<>>>>, x, y)
       IN  /\ write_back(sc[1])
           /\ invoked' = sc[2]
           /\ last_release' = (event = EVENT_LBUTTONUP)
           /\ last_inside' = StrictlyInside(x, y)
           /\ queued_this_tick' =
                 (queued_this_tick \/ \E i \in 1..Len(sc[2]) : sc[2][i] = "queue_save_snapshot")
    /\ UNCHANGED <<pc, use_smoothing_filter, blank_image, temp_min, temp_max,
                   image, current_image, snapshot_saved_at, now, acq, escaped,
                   tick, last_key, saved_file, last_save_time, saved_this_tick,
                   drew_buttons_this_tick, generated, presented, presented_at,
                   queued_prev_tick, prev_saved_at, calls>>

\* Pointer positions, for every button: its centre, the middle of each of
\* its four edges, its two corners start and end, and a point to its right.
points_of(b) ==
    LET x0 == b.start[1]  y0 == b.start[2]  x1 == b.end[1]  y1 == b.end[2]
        xm == (x0 + x1) \div 2  ym == (y0 + y1) \div 2
    IN  {<<xm, ym>>, <<x0, ym>>, <<x1, ym>>, <<xm, y0>>, <<xm, y1>>,
         <<x0, y0>>, <<x1, y1>>, <<x1 + 5, ym>>}
Points == UNION {points_of(buttons[i]) : i \in 1..Len(buttons)}

\* A release of the left button somewhere, or a move of the pointer.
pointer_event ==
    \/ \E p \in Points : process_click_input(EVENT_LBUTTONUP, p[1], p[2])
    \/ \E p \in {<<40, 575>>} : process_click_input(EVENT_MOUSEMOVE, p[1], p[2])

\* __process_events from the return of cv2.waitKey(1) & 0xFF on: Escape
\* calls __exit.  The tick ends here, and with it this tick's history.
waitKey_return(key) ==
    /\ pc = "waitKey"
    /\ write_back(IF key = KeyEscape THEN exit(callback_state) ELSE callback_state)
    /\ pc' = "loop"
    /\ last_key' = key
    /\ acq' = "idle"
    /\ nevents' = 0
    /\ invoked' = <<>>
    /\ last_release' = FALSE
    /\ last_inside' = {}
    /\ saved_file' = NoImage
    /\ saved_this_tick' = FALSE
    /\ drew_buttons_this_tick' = FALSE
    /\ generated' = NoImage
    /\ presented' = NoImage
    /\ presented_at' = None
    /\ UNCHANGED <<use_smoothing_filter, blank_image, temp_min, temp_max, image,
                   current_image, snapshot_saved_at, now, escaped, tick,
                   last_save_time, queued_this_tick, queued_prev_tick,
                   prev_saved_at, calls>>

key_event == \E key \in {KeyNone, KeyEscape, KeyOther} : waitKey_return(key)

(* --------------------------- except clause ----------------------------- *)

\* Whether `error.message` exists: Python 3 exceptions have no message
\* attribute, reading it raises AttributeError.
has_message(error) == FALSE

\* start: `except RuntimeError as error`.
except_RuntimeError ==
    /\ pc = "except"
    /\ IF ~has_message(acq)
       THEN pc' = "crashed" /\ escaped' = "AttributeError"
       ELSE IF acq = "RuntimeError: Too many retries"
            THEN pc' = "loop" /\ escaped' = escaped
            ELSE pc' = "crashed" /\ escaped' = acq
    /\ UNCHANGED <<camera_vars, window_vars, now, acq, nevents, tick,
                   history_vars>>

(* ------------------------------ the clock ------------------------------ *)

\* Time passes while start() runs.
elapse ==
    /\ pc \notin {"done", "crashed"}
    /\ now < MaxTime
    /\ now' = now + 1
    /\ UNCHANGED <<pc, camera_vars, window_vars, acq, escaped, nevents, tick,
                   history_vars>>

Next ==
    \/ start_loop
    \/ pull_ok
    \/ pull_fault
    \/ pull_runtime_error
    \/ process_raw_image
    \/ add_image_text
    \/ save_snapshot
    \/ draw_buttons
    \/ update_window
    \/ process_events
    \/ pointer_event
    \/ key_event
    \/ except_RuntimeError
    \/ elapse

Spec == Init /\ [][Next]_vars

(* ------------------- the Camera, driven by any caller ------------------ *)

\* Where a caller of the Camera is between two calls of its methods: before
\* the first call and after generate_frame_image returned.
CameraIdle == {"loop", "branch"}

\* The caller calls generate_frame_image.
camera_generate ==
    /\ pc \in CameraIdle
    /\ pc' = "pull"
    /\ calls' = [colormap |-> 0, interpolation |-> 0,
                 colormap_from |-> colormap_index,
                 interpolation_from |-> interpolation_index]
    /\ UNCHANGED <<camera_vars, window_vars, now, acq, escaped, nevents, tick,
                   last_key, invoked, last_release, last_inside, saved_file,
                   last_save_time, saved_this_tick, drew_buttons_this_tick,
                   generated, presented, presented_at, queued_this_tick,
                   queued_prev_tick, prev_saved_at>>

\* The caller calls Camera.cycle_colormap.
camera_cycle_colormap ==
    /\ pc \in CameraIdle
    /\ calls.colormap < MaxCalls
    /\ write_back(cycle_colormap(callback_state))
    /\ calls' = [calls EXCEPT !.colormap = @ + 1]
    /\ UNCHANGED <<pc, use_smoothing_filter, blank_image, temp_min, temp_max,
                   image, current_image, snapshot_saved_at, now, acq, escaped,
                   nevents, tick, last_key, invoked, last_release, last_inside,
                   saved_file, last_save_time, saved_this_tick,
                   drew_buttons_this_tick, generated, presented, presented_at,
                   queued_this_tick, queued_prev_tick, prev_saved_at>>

\* The caller calls Camera.cycle_interpolation.
camera_cycle_interpolation ==
    /\ pc \in CameraIdle
    /\ calls.interpolation < MaxCalls
    /\ write_back(cycle_interpolation(callback_state))
    /\ calls' = [calls EXCEPT !.interpolation = @ + 1]
    /\ UNCHANGED <<pc, use_smoothing_filter, blank_image, temp_min, temp_max,
                   image, current_image, snapshot_saved_at, now, acq, escaped,
                   nevents, tick, last_key, invoked, last_release, last_inside,
                   saved_file, last_save_time, saved_this_tick,
                   drew_buttons_this_tick, generated, presented, presented_at,
                   queued_this_tick, queued_prev_tick, prev_saved_at>>

CameraNext ==
    \/ camera_generate
    \/ pull_ok
    \/ pull_fault
    \/ process_raw_image
    \/ add_image_text
    \/ camera_cycle_colormap
    \/ camera_cycle_interpolation

\* The Camera object as constructed, its methods called in any order.
CameraSpec == Init /\ [][CameraNext]_vars

(* ------------------------ the rescale on its own ----------------------- *)

\* The frames getFrame can leave in the buffer: NormLen samples, each a
\* temperature up to MaxNormTemp, NaN or +inf.
NormTemps == (0..MaxNormTemp) \cup {NaN, PosInf}
NormFrames == [1..NormLen -> NormTemps]

\* getFrame returns any of these frames.
pull_any_frame == \E f \in NormFrames : getFrame_returned(f)

NormNext ==
    \/ camera_generate
    \/ pull_any_frame

\* The first call of generate_frame_image, up to the return of
\* __temps_to_rescaled_uints, for every frame of NormFrames.
NormInit ==
    /\ blank_image = [i \in 1..NormLen |-> 0]
    /\ Constructed

NormSpec == NormInit /\ [][NormNext]_vars

(* ------------------------------ claims --------------------------------- *)

\* Positions of start() within a tick.
BeforeBranch == {"pull", "process", "text", "branch"}
AfterBranch == {"update", "events", "waitKey"}
AfterPresent == {"events", "waitKey"}

\* One second, in clock units.
OneSecond == TicksPerSecond

\* The image shown in this tick was shown less than a second after the last
\* snapshot was written.
PresentedWithinASecondOfSave ==
    /\ pc \in AfterPresent
    /\ last_save_time # None
    /\ presented_at - last_save_time < OneSecond

\* C1: a queue-save invoked during the polling of tick k makes tick k+1, and
\* no other tick, write a file; the file is the frame generated in that
\* tick, without buttons; nothing is written or drawn before the branch of a
\* tick, and a tick that writes a file draws no buttons.
C1_SaveOnNextTick ==
    /\ pc \in BeforeBranch => ~saved_this_tick /\ ~drew_buttons_this_tick
    /\ pc \in AfterBranch => (saved_this_tick <=> queued_prev_tick)
    /\ saved_this_tick =>
          /\ saved_file = generated
          /\ saved_file.dtype # "none"
          /\ saved_file.buttons = <<>>
          /\ ~drew_buttons_this_tick
    /\ ~saved_this_tick => saved_file = NoImage

\* A tick that saves the snapshot queued in the tick before it.
C1_Witness ==
    /\ pc = "update"
    /\ queued_prev_tick
    /\ saved_this_tick
    /\ saved_file.buttons = <<>>
    /\ tick >= 2

C3_NotificationExpires ==
    /\ (pc \in AfterPresent /\ last_save_time # None
            /\ presented_at - last_save_time >= OneSecond) =>
          snapshot_saved_at = None /\ ~presented.notification
    /\ snapshot_saved_at # None => snapshot_saved_at = last_save_time
    /\ (pc \in AfterPresent /\ snapshot_saved_at = None) =>
          /\ ~presented.notification
          /\ ~saved_this_tick => presented.buttons = button_texts

\* A tick presented a second or more after the save, with its buttons.
C3_Witness ==
    /\ pc \in AfterPresent
    /\ last_save_time # None
    /\ presented_at - last_save_time >= OneSecond
    /\ snapshot_saved_at = None
    /\ ~presented.notification
    /\ presented.buttons = button_texts

\* C4 (as stated): a RuntimeError 'Too many retries' does not end the loop.
C4_TooManyRetriesCaught ==
    acq = "RuntimeError: Too many retries" => pc # "crashed"

\* C5 (as stated): after an acquisition fault no exception leaves
\* generate_frame_image.
C5_AcquisitionFaultReturnsImage ==
    acq \in AcquisitionFaults => pc # "crashed"

\* C6 (as stated): the frame substituted on an acquisition fault is all-zero.
C6_FaultFrameIsZero ==
    (acq \in AcquisitionFaults /\ pc = "process") => image.data = ZeroFrame

\* C7: a successful acquisition sets temp_min and temp_max to the min and max
\* of the frame read, an acquisition fault leaves both as they were, and no
\* other step changes them.
C7_TempExtremes ==
    [][ /\ (pc = "pull" /\ acq' = "ok") =>
              temp_min' = np_min(blank_image') /\ temp_max' = np_max(blank_image')
        /\ (pc = "pull" /\ acq' \in AcquisitionFaults) =>
              temp_min' = temp_min /\ temp_max' = temp_max
        /\ pc # "pull" => temp_min' = temp_min /\ temp_max' = temp_max ]_vars

\* An acquisition fault after a successful acquisition: the extremes are kept.
C7_Witness ==
    /\ pc = "process"
    /\ acq \in AcquisitionFaults
    /\ temp_min # None
    /\ temp_max # None
    /\ temp_min = np_min(blank_image)
    /\ temp_max = np_max(blank_image)

\* C8: the selection changes only while input is polled; the colormap and
\* interpolation a frame was made with are the ones its overlay names, and
\* up to the polling of its tick they are the current selection.
C8_SelectionStable ==
    /\ [](current_image.text # NoText =>
            /\ current_image.text.Colormap = current_image.colormap
            /\ current_image.text.Interp =
                   interpolation_labels_list[current_image.interp + 1]
            /\ current_image.text.Filtered = current_image.smoothed)
    /\ [](pc \in {"branch", "update", "events"} =>
            /\ current_image.colormap = colormap_list[colormap_index + 1]
            /\ current_image.interp = interpolation_index)
    /\ [][pc # "waitKey" =>
            UNCHANGED <<colormap_index, interpolation_index,
            use_smoothing_filter>>]_vars

\* A change made while tick k polls: the frame shown in tick k keeps the old
\* colormap.
C8_Witness ==
    /\ pc = "waitKey"
    /\ presented.dtype # "none"
    /\ presented.colormap # colormap_list[colormap_index + 1]
    /\ presented.text.Colormap = presented.colormap

\* C9: the Exit button and the Escape key set the exit flag; the flag stays set; it is set
\* during polling, the last step of a tick; the windows are then destroyed;
\* the loop ends at its next test, and no frame is generated, saved or shown
\* after the request.
C9_ExitStops ==
    /\ []((\E i \in 1..Len(invoked) : invoked[i] = "exit") => is_exit_requested)
    /\ [](last_key = 27 => is_exit_requested)
    /\ [](is_exit_requested => pc \in {"waitKey", "loop", "done"} /\ ~windows_open)
    /\ [](pc = "done" => is_exit_requested)
    /\ [][is_exit_requested =>
            /\ is_exit_requested'
            /\ pc = "loop" => pc' \in {"loop", "done"}
            /\ UNCHANGED <<tick, current_image, blank_image, last_save_time,
                           snapshot_saved_at>>]_vars

\* The loop has ended on an exit request, with a save still queued.
C9_Witness ==
    /\ pc = "done"
    /\ is_exit_requested
    /\ ~windows_open
    /\ queue_save_snapshot
    /\ tick >= 1

\* C10: after every pointer event, a release of the left button strictly
\* inside a button's rectangle has called the callback of the first such
\* button, once, and no other callback; any other pointer event (a release on
\* an edge or outside every rectangle, or not a release) has called none.
C10_HitTest ==
    (pc = "waitKey" /\ nevents >= 1) =>
        IF last_release /\ last_inside # {}
        THEN LET first == CHOOSE i \in last_inside : \A j \in last_inside : i <= j
             IN  invoked = <<buttons[first].callback>>
        ELSE invoked = <<>>

\* A release inside the Colormap button called cycle_colormap alone.
C10_Witness ==
    /\ pc = "waitKey"
    /\ nevents = 1
    /\ last_release
    /\ last_inside = {2}
    /\ invoked = <<"cycle_colormap">>
    /\ colormap_index = 1

\* The callbacks of the buttons, in the order of the list.
button_callbacks == [i \in 1..Len(buttons) |-> buttons[i].callback]

\* The pointer positions around the row of buttons: every x and y from ten
\* pixels before the first rectangle to ten pixels past the last.
ButtonArea ==
    LET xs == {buttons[i].start[1] : i \in 1..Len(buttons)} \cup
              {buttons[i].end[1] : i \in 1..Len(buttons)}
        ys == {buttons[i].start[2] : i \in 1..Len(buttons)} \cup
              {buttons[i].end[2] : i \in 1..Len(buttons)}
        lo(S) == CHOOSE v \in S : \A w \in S : v <= w
        hi(S) == CHOOSE v \in S : \A w \in S : v >= w
    IN  ((lo(xs) - 10)..(hi(xs) + 10)) \X ((lo(ys) - 10)..(hi(ys) + 10))

\* No pointer position is strictly inside two rectangles.
ButtonsDisjoint ==
    \A p \in ButtonArea : Cardinality(StrictlyInside(p[1], p[2])) <= 1

\* C11: the button list is Save, Colormap, Interpolation, Exit in that order,
\* with the callbacks queue-save, cycle-colormap, cycle-interpolation, exit;
\* it is the list every tick draws and every pointer event is tested against;
\* and no point is strictly inside two of the rectangles.
C11_ButtonsFixedAndDisjoint ==
    /\ button_texts = <<"Save", "Colormap", "Interpolation", "Exit">>
    /\ button_callbacks =
          <<"queue_save_snapshot", "cycle_colormap", "cycle_interpolation", "exit">>
    /\ ButtonsDisjoint
    /\ Cardinality(last_inside) <= 1
    /\ current_image.buttons \in {<<>>, button_texts}
    /\ \A i \in 1..Len(invoked) : \E j \in 1..Len(buttons) : invoked[i] = buttons[j].callback

\* The four buttons are on the image shown, and a release inside Save's
\* rectangle, and in no other, called queue-save.
C11_Witness ==
    /\ pc = "waitKey"
    /\ presented.buttons = <<"Save", "Colormap", "Interpolation", "Exit">>
    /\ last_release
    /\ last_inside = {1}
    /\ invoked = <<"queue_save_snapshot">>

\* C12: after n calls of cycle_colormap the index is (start + n) modulo the
\* length of colormap_list, so one call moves it to (index + 1) modulo the
\* length and len(colormap_list) calls bring it back to where it started;
\* the same for cycle_interpolation and interpolation_list.
C12_CyclingWraps ==
    /\ colormap_index = (calls.colormap_from + calls.colormap) % Len(colormap_list)
    /\ interpolation_index =
          (calls.interpolation_from + calls.interpolation) % Len(interpolation_list)
    /\ calls.colormap = Len(colormap_list) => colormap_index = calls.colormap_from
    /\ calls.interpolation = Len(interpolation_list) =>
          interpolation_index = calls.interpolation_from

\* Nine calls of cycle_colormap from index 4 and seven calls of
\* cycle_interpolation from index 5: both are back.
C12_Witness ==
    /\ calls.colormap_from = 4
    /\ calls.colormap = 9
    /\ colormap_index = 4
    /\ calls.interpolation_from = 5
    /\ calls.interpolation = 7
    /\ interpolation_index = 5

\* C13: in every state, and so whenever a frame is processed or its text
\* drawn, both indices are within their lists, the labels are as many as the
\* interpolations, and every name and label an image carries comes from the
\* lists.
C13_IndicesInRange ==
    /\ 0 <= colormap_index /\ colormap_index < Len(colormap_list)
    /\ 0 <= interpolation_index /\ interpolation_index < Len(interpolation_list)
    /\ Len(interpolation_list) = Len(interpolation_labels_list)
    /\ pc \in {"process", "text"} =>
          /\ colormap_index + 1 \in DOMAIN colormap_list
          /\ interpolation_index + 1 \in DOMAIN interpolation_list
          /\ interpolation_index + 1 \in DOMAIN interpolation_labels_list
    /\ current_image.text # NoText =>
          /\ \E i \in DOMAIN colormap_list : current_image.text.Colormap = colormap_list[i]
          /\ \E i \in DOMAIN interpolation_labels_list :
                current_image.text.Interp = interpolation_labels_list[i]

\* A frame's text is drawn with the first interpolation and the last colormap,
\* the interpolation index having wrapped since the frame before.
C13_Witness ==
    /\ pc = "text"
    /\ interpolation_index = 0
    /\ colormap_index = Len(colormap_list) - 1
    /\ current_image.interp = Len(interpolation_list) - 1
    /\ image.interp = 0

\* __temps_to_rescaled_uints has returned: blank_image holds the frame read,
\* temp_min and temp_max its extremes and image the pixels.
Normalized == pc = "process" /\ acq = "ok"

\* Every sample of the frame is finite.
FiniteFrame(f) == \A i \in DOMAIN f : f[i] \notin {NaN, PosInf}

\* n / d rounded to the nearest integer, ties to even (Python's round).
round(n, d) ==
    LET q == n \div d
        r == n % d
    IN  IF 2 * r > d \/ (2 * r = d /\ q % 2 = 1) THEN q + 1 ELSE q

\* C14 (as stated): for a frame of finite samples with max > min every pixel
\* is in 0..255, a sample equal to min gives 0 and a sample equal to max
\* gives 255.
C14_MinAndMaxPixels ==
    (Normalized /\ FiniteFrame(blank_image) /\ temp_max > temp_min) =>
        \A i \in DOMAIN blank_image :
            /\ image.data[i] \in 0..255
            /\ blank_image[i] = temp_min => image.data[i] = 0
            /\ blank_image[i] = temp_max => image.data[i] = 255

\* C15 (as stated): for a frame with max > min every pixel is
\* round((value - min) * 255 / (max - min)).
C15_PixelIsRounded ==
    (Normalized /\ FiniteFrame(blank_image) /\ temp_max > temp_min) =>
        \A i \in DOMAIN blank_image :
            image.data[i] = round((blank_image[i] - temp_min) * 255, temp_max - temp_min)

\* C16 (as stated): for a frame whose max equals its min the rescale does not
\* divide by zero and every pixel is 0.
C16_UniformFrameIsZero ==
    (Normalized /\ FiniteFrame(blank_image) /\ temp_max = temp_min) =>
        /\ rescale_divisor(temp_min, temp_max) # num(0, 0)
        /\ image.data = [i \in DOMAIN blank_image |-> 0]

\* The frame with 0 for every sample that is not finite.
zero_substituted(f) ==
    [i \in DOMAIN f |-> IF f[i] \in {NaN, PosInf} THEN 0 ELSE f[i]]

\* C17 (as stated): for a frame with samples that are not finite, temp_min,
\* temp_max and the pixels are those of the frame with 0 in their place, and
\* temp_min and temp_max are finite.
C17_NonFiniteZeroedFirst ==
    (Normalized /\ ~FiniteFrame(blank_image)) =>
        LET z == zero_substituted(blank_image)
        IN  /\ temp_min = np_min(z)
            /\ temp_max = np_max(z)
            /\ temp_min \notin {NaN, PosInf}
            /\ temp_max \notin {NaN, PosInf}
            /\ image.data \in temps_to_rescaled_uints(z, np_min(z), np_max(z))

\* This step is the mouse callback handling one pointer event.
PointerEventStep == pc = "waitKey" /\ nevents' = nevents + 1

\* C18: a call of cycle_colormap moves colormap_index alone, and leaves
\* interpolation_index, the smoothing flag, temp_min, temp_max and the
\* snapshot state as they were; a call of cycle_interpolation moves
\* interpolation_index alone; every other pointer event leaves both indices;
\* and the smoothing flag is as constructed in every state.
C18_SelectorsIndependent ==
    /\ [](use_smoothing_filter = TRUE)
    /\ [][PointerEventStep =>
            /\ invoked' = <<"cycle_colormap">> =>
                  /\ colormap_index' = (colormap_index + 1) % Len(colormap_list)
                  /\ UNCHANGED <<interpolation_index, use_smoothing_filter,
                                 temp_min, temp_max, queue_save_snapshot,
                                 snapshot_saved_at, is_exit_requested>>
            /\ invoked' = <<"cycle_interpolation">> =>
                  /\ interpolation_index' =
                        (interpolation_index + 1) % Len(interpolation_list)
                  /\ UNCHANGED <<colormap_index, use_smoothing_filter,
                                 temp_min, temp_max, queue_save_snapshot,
                                 snapshot_saved_at, is_exit_requested>>
            /\ invoked' \notin {<<"cycle_colormap">>, <<"cycle_interpolation">>} =>
                  UNCHANGED <<colormap_index, interpolation_index,
                              use_smoothing_filter, temp_min, temp_max>>]_vars

\* cycle_interpolation was called with a notification pending and the
\* colormap already changed: the interpolation moved, nothing else did.
C18_Witness ==
    /\ pc = "waitKey"
    /\ invoked = <<"cycle_interpolation">>
    /\ interpolation_index = 4
    /\ colormap_index = 1
    /\ snapshot_saved_at # None
    /\ use_smoothing_filter
    /\ ~queue_save_snapshot

C20_SnapshotWithoutNotification ==
    /\ saved_this_tick => saved_file = generated /\ ~saved_file.notification
    /\ generated # NoImage => ~generated.notification /\ generated.buttons = <<>>
    /\ pc = "branch" => current_image = generated

\* A second save less than a second after the first, whose notification was
\* still pending: the file has none.
C20_Witness ==
    /\ pc = "update"
    /\ saved_this_tick
    /\ prev_saved_at # None
    /\ last_save_time - prev_saved_at < OneSecond
    /\ ~saved_file.notification
    /\ saved_file.dtype = "uint8"
    /\ saved_file = current_image

====
